---- MODULE Spec2Model ----
(***************************************************************************)
(* A model of oregan.py: the expansion of a parameterized MakeGraph into a *)
(* CommandGraph (add_tasks, MakeGraph.concretize) followed by the threaded *)
(* executor (CommandGraph.run, Task.run, Task.needs_running).              *)
(***************************************************************************)
EXTENDS Integers, Sequences, FiniteSets, TLC

VARIABLES
    definitions,      \* the parsed yaml document (main's argument)
    args,             \* the parsed command line (root_path, target, parallelism, ...)
    fs,               \* the filesystem: existing path -> mtime
    clock,            \* the time the next written file is stamped with
    main_pc,          \* where main() is
    calls,            \* the params dicts add_tasks still has to pass to g.concretize
    cz,               \* the locals of the running MakeGraph.concretize call
    tasks,            \* cg.tasks: the Task objects, a Task being its index here
    path_to_task,     \* cg.path_to_task
    name_to_resource, \* the value of each resource BoundedSemaphore
    thread_semaphore, \* the value of the BoundedSemaphore created by CommandGraph.run
    started,          \* how many threads CommandGraph.run has started
    pc,               \* where each task thread is in Task.run
    dep_i,            \* each thread's position in `for t in self.task_dependencies`
    res_i,            \* how many of its resources each thread holds
    hist,             \* history: what needs_running returned, what the command did
    result,           \* <<v>> once CommandGraph.run has returned v, <<>> before
    exit_code,        \* <<n>> once the program has exited with status n, <<>> before
    pool              \* smartmake.py: the state of CommandGraph.run and its thread pool

vars == <<definitions, args, fs, clock, main_pc, calls, cz, tasks, path_to_task,
          name_to_resource, thread_semaphore, started, pc, dep_i, res_i, hist, result,
          exit_code, pool>>

(***************************************************************************)
(* Bounds of the model.                                                    *)
(***************************************************************************)
MaxP == 2        \* --parallelism ranges over 1..MaxP
MaxCap == 2      \* the capacity of the shared resource ranges over 1..MaxCap

(***************************************************************************)
(* Templates.  A string with {name} placeholders is the sequence of its    *)
(* literal pieces and placeholders, which is what param_regex and          *)
(* str.format see in it.                                                   *)
(***************************************************************************)
Lit(s) == [k |-> "lit", v |-> s]
Par(p) == [k |-> "par", v |-> p]

get_params(s) == {s[n].v : n \in {m \in DOMAIN s : s[m].k = "par"}}

RECURSIVE format(_, _)
format(s, params) ==
    IF s = <<>> THEN ""
    ELSE (IF Head(s).k = "lit" THEN Head(s).v ELSE params[Head(s).v])
         \o format(Tail(s), params)

path_join(root, path) == root \o "/" \o path

Range(s) == {s[n] : n \in DOMAIN s}

(***************************************************************************)
(* FileSpec, TaskSpec and the MakeGraph that main builds from the yaml.    *)
(***************************************************************************)
FileSpec(name, path) == [name |-> name, path |-> path, params |-> get_params(path)]

FileSpec_concretize(f, fileroot, params) == path_join(fileroot, format(f.path, params))

names_to_filespec(defs) == [name \in DOMAIN defs.files |-> FileSpec(name, defs.files[name])]

TaskSpec(defs, t_desc) ==
    LET generates == [n \in DOMAIN t_desc.generates |->
                          names_to_filespec(defs)[t_desc.generates[n]]]
        dependencies == [n \in DOMAIN t_desc.dependencies |->
                          names_to_filespec(defs)[t_desc.dependencies[n]]]
    IN  [name |-> t_desc.name,
         dependencies |-> dependencies,
         command |-> t_desc.command,
         generates |-> generates,
         uses |-> t_desc.uses,
         params |-> get_params(t_desc.command)
                      \cup UNION {generates[n].params : n \in DOMAIN generates}
                      \cup UNION {dependencies[n].params : n \in DOMAIN dependencies}]

\* g.rules after main has called g.add_task for every task of the yaml, in order:
\* a name generated by several tasks maps to the last of them.
MakeGraph_rules(defs) ==
    LET gen(n) == Range(defs.tasks[n].generates)
        names == UNION {gen(n) : n \in DOMAIN defs.tasks}
        last(name) == CHOOSE n \in DOMAIN defs.tasks :
                          /\ name \in gen(n)
                          /\ \A m \in DOMAIN defs.tasks : name \in gen(m) => m <= n
    IN  [name \in names |-> TaskSpec(defs, defs.tasks[last(name)])]

\* Task.__init__ on the values TaskSpec.concretize passes.
Task(name, dependencies, uses, command, generates, redo_if_modified) ==
    [name |-> name,
     file_dependencies |-> dependencies,
     command |-> command,
     redo_if_modified |-> redo_if_modified,
     generates |-> generates,
     uses |-> uses,
     completed |-> FALSE,
     task_dependencies |-> <<>>,
     task_successors |-> <<>>,
     success |-> FALSE]

\* raise MissingParameters(self.name, self.params) in place of the difference.
TaskSpec_missing_all(spec, params) ==
    IF spec.params \subseteq DOMAIN params THEN {} ELSE spec.params

TaskSpec_missing(spec, params) == spec.params \ DOMAIN params

TaskSpec_concretize(spec, root_path, params, redo_if_modified) ==
    Task(<<spec.name, params>>,
         [n \in DOMAIN spec.dependencies |->
              FileSpec_concretize(spec.dependencies[n], root_path, params)],
         spec.uses,
         format(spec.command, params),
         [n \in DOMAIN spec.generates |->
              FileSpec_concretize(spec.generates[n], root_path, params)],
         redo_if_modified)

(***************************************************************************)
(* add_tasks: the params dicts it passes to g.concretize, in call order.   *)
(***************************************************************************)
\* add_tasks without its else: after the values of a parameter it goes on
\* without the parameter as well, as the add_tasks of smartmake.py does.
RECURSIVE add_tasks_and_without(_, _, _)
add_tasks_and_without(param_names, values, params) ==
    IF Len(param_names) > 0
    THEN LET p_name == Head(param_names)
             RECURSIVE each(_)
             each(vs) == IF vs = <<>> THEN <<>>
                         ELSE add_tasks_and_without(Tail(param_names), values,
                                                    (p_name :> Head(vs)) @@ params)
                              \o each(Tail(vs))
         IN  each(values[p_name])
             \o add_tasks_and_without(Tail(param_names), values, params)
    ELSE <<params>>

RECURSIVE add_tasks(_, _, _)
add_tasks(param_names, values, params) ==
    IF Len(param_names) > 0
    THEN LET p_name == Head(param_names)
             p_value_list == values[p_name]
             RECURSIVE each(_)
             each(vs) == IF vs = <<>> THEN <<>>
                         ELSE add_tasks(Tail(param_names), values,
                                        (p_name :> Head(vs)) @@ params)
                              \o each(Tail(vs))
         IN  IF Len(p_value_list) > 0
             THEN each(p_value_list)
             ELSE add_tasks(Tail(param_names), values, params)
    ELSE <<params>>

(***************************************************************************)
(* The inputs: yaml documents and command lines.                           *)
(***************************************************************************)
TaskDesc(name, command, generates, dependencies, uses) ==
    [name |-> name, command |-> command, generates |-> generates,
     dependencies |-> dependencies, uses |-> uses]

Args(target, parallelism, redo_if_modified, values) ==
    [root_path |-> "r", target |-> target, parallelism |-> parallelism,
     redo_if_modified |-> redo_if_modified, values |-> values]

NoFiles == [p \in {} |-> 0]

\* A fails or not -> B -> C <- D, no parameters, no resources.
Cascade(P, redo) ==
    [definitions |->
        [parameters |-> <<>>,
         resources |-> [r \in {} |-> 0],
         files |-> [a |-> <<Lit("a")>>, b |-> <<Lit("b")>>,
                    c |-> <<Lit("c")>>, d |-> <<Lit("d")>>],
         tasks |-> << TaskDesc("A", <<Lit("mk a")>>, <<"a">>, <<>>, <<>>),
                      TaskDesc("B", <<Lit("mk b")>>, <<"b">>, <<"a">>, <<>>),
                      TaskDesc("D", <<Lit("mk d")>>, <<"d">>, <<>>, <<>>),
                      TaskDesc("C", <<Lit("mk c")>>, <<"c">>, <<"b", "d">>, <<>>) >>],
     args |-> Args("c", P, redo, <<>>),
     present |-> [p \in {"r/a", "r/b", "r/c", "r/d"} |-> IF p = "r/a" THEN 2 ELSE 1]]

\* Three independent tasks that all use one resource of capacity cap.
Gpu(P, cap) ==
    [definitions |->
        [parameters |-> <<"x">>,
         resources |-> [gpu |-> cap],
         files |-> [g |-> <<Lit("g_"), Par("x")>>],
         tasks |-> << TaskDesc("G", <<Lit("mk g "), Par("x")>>, <<"g">>, <<>>, <<"gpu">>) >>],
     args |-> Args("g", P, FALSE, [x |-> <<"1", "2", "3">>]),
     present |-> NoFiles]

\* Two tasks that take the same two resources, Y in the order yuses.
TwoResources(P, yuses) ==
    [definitions |->
        [parameters |-> <<>>,
         resources |-> [r1 |-> 1, r2 |-> 1],
         files |-> [x |-> <<Lit("x")>>, y |-> <<Lit("y")>>, z |-> <<Lit("z")>>],
         tasks |-> << TaskDesc("X", <<Lit("mk x")>>, <<"x">>, <<>>, <<"r1", "r2">>),
                      TaskDesc("Y", <<Lit("mk y")>>, <<"y">>, <<>>, yuses),
                      TaskDesc("Z", <<Lit("mk z")>>, <<"z">>, <<"x", "y">>, <<>>) >>],
     args |-> Args("z", P, FALSE, <<>>),
     present |-> NoFiles]

\* One task whose output uses both parameters: a=[1,2], b=bs.
Product(P, bs) ==
    [definitions |->
        [parameters |-> <<"a", "b">>,
         resources |-> [r \in {} |-> 0],
         files |-> [f |-> <<Lit("f_"), Par("a"), Lit("_"), Par("b")>>],
         tasks |-> << TaskDesc("F", <<Lit("mk f "), Par("a"), Lit(" "), Par("b")>>,
                             <<"f">>, <<>>, <<>>) >>],
     args |-> Args("f", P, FALSE, [a |-> <<"1", "2">>, b |-> bs]),
     present |-> NoFiles]

\* F's output uses a and b, its input e uses a alone: a=[1], b=[x,y].
Shared(P) ==
    [definitions |->
        [parameters |-> <<"a", "b">>,
         resources |-> [r \in {} |-> 0],
         files |-> [e |-> <<Lit("e_"), Par("a")>>,
                    f |-> <<Lit("f_"), Par("a"), Lit("_"), Par("b")>>],
         tasks |-> << TaskDesc("E", <<Lit("mk e "), Par("a")>>, <<"e">>, <<>>, <<>>),
                      TaskDesc("F", <<Lit("mk f "), Par("a"), Lit(" "), Par("b")>>,
                             <<"f">>, <<"e">>, <<>>) >>],
     args |-> Args("f", P, FALSE, [a |-> <<"1">>, b |-> <<"x", "y">>]),
     present |-> NoFiles]

\* A task that reads a source file no task generates.
External(P) ==
    [definitions |->
        [parameters |-> <<>>,
         resources |-> [r \in {} |-> 0],
         files |-> [src |-> <<Lit("src")>>, o |-> <<Lit("o")>>],
         tasks |-> << TaskDesc("O", <<Lit("mk o")>>, <<"o">>, <<"src">>, <<>>) >>],
     args |-> Args("o", P, FALSE, <<>>),
     present |-> [p \in {"r/src"} |-> 1]]

\* The command line repeats a value: a=[1,1], so add_tasks calls concretize
\* twice with the same target and the same params.
Repeated(P) ==
    [definitions |->
        [parameters |-> <<"a">>,
         resources |-> [r \in {} |-> 0],
         files |-> [e |-> <<Lit("e_"), Par("a")>>,
                    f |-> <<Lit("f_"), Par("a")>>],
         tasks |-> << TaskDesc("E", <<Lit("mk e "), Par("a")>>, <<"e">>, <<>>, <<>>),
                      TaskDesc("F", <<Lit("mk f "), Par("a")>>, <<"f">>, <<"e">>, <<>>) >>],
     args |-> Args("f", P, FALSE, [a |-> <<"1", "1">>]),
     present |-> NoFiles]

\* One task generates two files and another task depends on both.
TwoOutputs(P) ==
    [definitions |->
        [parameters |-> <<>>,
         resources |-> [r \in {} |-> 0],
         files |-> [f |-> <<Lit("f")>>, ff |-> <<Lit("ff")>>, h |-> <<Lit("h")>>],
         tasks |-> << TaskDesc("W", <<Lit("mk f ff")>>, <<"f", "ff">>, <<>>, <<>>),
                      TaskDesc("H", <<Lit("mk h")>>, <<"h">>, <<"f", "ff">>, <<>>) >>],
     args |-> Args("h", P, FALSE, <<>>),
     present |-> NoFiles]

\* U and V depend on each other's output; with udeps = <<"k", "v">> U also
\* depends, first, on the output of K, which is on no cycle.
Cyclic(P, udeps) ==
    [definitions |->
        [parameters |-> <<>>,
         resources |-> [r \in {} |-> 0],
         files |-> [u |-> <<Lit("u")>>, v |-> <<Lit("v")>>, k |-> <<Lit("k")>>],
         tasks |-> << TaskDesc("U", <<Lit("mk u")>>, <<"u">>, udeps, <<>>),
                      TaskDesc("V", <<Lit("mk v")>>, <<"v">>, <<"u">>, <<>>),
                      TaskDesc("K", <<Lit("mk k")>>, <<"k">>, <<>>, <<>>) >>],
     args |-> Args("u", P, FALSE, <<>>),
     present |-> NoFiles]

Scenarios ==
    {Cascade(P, redo) : P \in 1..MaxP, redo \in BOOLEAN}
    \cup {Gpu(P, cap) : P \in 1..MaxP, cap \in 1..MaxCap}
    \cup {TwoResources(P, yuses) : P \in 1..MaxP,
                                   yuses \in {<<"r1", "r2">>, <<"r2", "r1">>}}
    \cup {Product(P, bs) : P \in 1..MaxP, bs \in {<<"x", "y">>, <<>>}}
    \cup {Shared(P) : P \in 1..MaxP}
    \cup {External(P) : P \in 1..MaxP}
    \cup {Repeated(P) : P \in 1..MaxP}
    \cup {TwoOutputs(P) : P \in 1..MaxP}
    \cup {Cyclic(P, udeps) : P \in 1..MaxP, udeps \in {<<"v">>, <<"k", "v">>}}

\* smartmake.py is another program: while oregan.py runs there is no pool.
pool_off == [pc |-> "off"]

Restrict(f, S) == [x \in S |-> f[x]]

FirstClock == 3   \* later than every mtime of the initial filesystems

\* The frame of the running call of MakeGraph.concretize.  Three fields only
\* observe it: returned lists the params of the calls that returned, before
\* is the CommandGraph as the latest call found it, and exc holds the
\* arguments of the exception raised.
cz_idle == [pc |-> "idle", params |-> <<>>, to_add |-> {}, done |-> {},
            generated_tasks |-> <<>>, returned |-> <<>>,
            before |-> [tasks |-> <<>>, path_to_task |-> <<>>], exc |-> <<>>]

\* main up to the call of add_tasks: the yaml and the command line are parsed,
\* the resources' semaphores created, the MakeGraph built, the CommandGraph empty.
Init ==
    \E sc \in Scenarios :
        /\ definitions = sc.definitions
        /\ args = sc.args
        /\ fs \in {Restrict(sc.present, S) : S \in SUBSET DOMAIN sc.present}
        /\ clock = FirstClock
        /\ main_pc = "add_tasks"
        /\ calls = add_tasks(sc.definitions.parameters, sc.args.values, <<>>)
        /\ cz = cz_idle
        /\ tasks = <<>>
        /\ path_to_task = <<>>
        /\ name_to_resource = sc.definitions.resources
        /\ thread_semaphore = 0
        /\ started = 0
        /\ pc = <<>>
        /\ dep_i = <<>>
        /\ res_i = <<>>
        /\ hist = <<>>
        /\ result = <<>>
        /\ exit_code = <<>>
        /\ pool = pool_off

(***************************************************************************)
(* MakeGraph.concretize, one step per iteration of its while loop.         *)
(***************************************************************************)
run_vars == <<fs, clock, name_to_resource, thread_semaphore, started, pc, dep_i,
              res_i, hist, result>>
exec_vars == <<run_vars, exit_code>>

\* add_tasks reaches its else branch and calls g.concretize(target, params, cg).
ConcretizeCall ==
    /\ main_pc = "add_tasks" /\ cz.pc = "idle" /\ calls # <<>>
    /\ cz' = [cz EXCEPT !.pc = "while", !.params = Head(calls),
                         !.to_add = {args.target}, !.done = {},
                         !.generated_tasks = <<>>,
                         !.before = [tasks |-> tasks, path_to_task |-> path_to_task]]
    /\ calls' = Tail(calls)
    /\ UNCHANGED <<pool, definitions, args, main_pc, tasks, path_to_task>>
    /\ UNCHANGED exec_vars

\* The exception one iteration raises on the popped name, or "none".
concretize_raises(name, params) ==
    IF name \notin DOMAIN MakeGraph_rules(definitions) THEN "KeyError"
    ELSE IF TaskSpec_missing(MakeGraph_rules(definitions)[name], params) # {}
    THEN "MissingParameters"
    ELSE "none"

\* The arguments the exception is built with: the missing key of KeyError,
\* MissingParameters(self.name, self.params - param_set).
exception_args(name, params) ==
    IF name \notin DOMAIN MakeGraph_rules(definitions) THEN <<name>>
    ELSE <<MakeGraph_rules(definitions)[name].name,
           TaskSpec_missing(MakeGraph_rules(definitions)[name], params)>>

\* g.path_to_task[generated.path] = concrete_task, for every generated file.
set_path_to_task(p2t, concrete_task, ix) ==
    [p \in DOMAIN p2t \cup Range(concrete_task.generates) |->
        IF p \in Range(concrete_task.generates) THEN ix ELSE p2t[p]]

\* g.tasks.append(concrete_task)
append_task(ts, concrete_task) == Append(ts, concrete_task)

\* The update of to_add without the "- done".
next_to_add_again(to_add, name, task, done) ==
    (to_add \ {name})
    \cup {task.dependencies[n].name : n \in DOMAIN task.dependencies}

\* name = to_add.pop(); ...; to_add |= {d.name for d in task.dependencies} - done
next_to_add(to_add, name, task, done) ==
    (to_add \ {name})
    \cup ({task.dependencies[n].name : n \in DOMAIN task.dependencies} \ done)

ConcretizeLoop ==
    /\ main_pc = "add_tasks" /\ cz.pc = "while" /\ cz.to_add # {}
    /\ \E name \in cz.to_add :
        /\ concretize_raises(name, cz.params) = "none"
        /\ LET task == MakeGraph_rules(definitions)[name]
               concrete_task == TaskSpec_concretize(task, args.root_path, cz.params,
                                                    args.redo_if_modified)
               ix == Len(append_task(tasks, concrete_task))
               done == cz.done \cup {name}
           IN  /\ tasks' = append_task(tasks, concrete_task)
               /\ path_to_task' = set_path_to_task(path_to_task, concrete_task, ix)
               /\ cz' = [cz EXCEPT
                           !.done = done,
                           !.generated_tasks = Append(@, ix),
                           !.to_add = next_to_add(cz.to_add, name, task, done)]
    /\ UNCHANGED <<pool, definitions, args, main_pc, calls>>
    /\ UNCHANGED exec_vars

\* self.rules[name] raises KeyError, or TaskSpec.concretize raises
\* MissingParameters: nothing catches it and the program ends.
ConcretizeRaise ==
    /\ main_pc = "add_tasks" /\ cz.pc = "while" /\ cz.to_add # {}
    /\ \E name \in cz.to_add :
        /\ concretize_raises(name, cz.params) # "none"
        /\ cz' = [cz EXCEPT !.pc = concretize_raises(name, cz.params),
                            !.done = cz.done \cup {name},
                            !.to_add = cz.to_add \ {name},
                            !.exc = exception_args(name, cz.params)]
    /\ main_pc' = "raised"
    /\ exit_code' = <<1>>
    /\ UNCHANGED <<pool, definitions, args, calls, tasks, path_to_task>>
    /\ UNCHANGED run_vars

\* The (concrete_task, d) pairs of the wiring loops, in the order they run.
RECURSIVE wire_pairs(_, _)
wire_pairs(ts, generated_tasks) ==
    IF generated_tasks = <<>> THEN <<>>
    ELSE [n \in DOMAIN ts[Head(generated_tasks)].file_dependencies |->
             <<Head(generated_tasks), ts[Head(generated_tasks)].file_dependencies[n]>>]
         \o wire_pairs(ts, Tail(generated_tasks))

\* Every d was popped from to_add and concretized by this call with the same
\* params, so path_to_task[d.path] is there.
RECURSIVE wire(_, _, _)
wire(ts, p2t, pairs) ==
    IF pairs = <<>> THEN ts
    ELSE LET concrete_task == Head(pairs)[1]
             predecessor_task == p2t[Head(pairs)[2]]
             ts1 == [ts EXCEPT ![predecessor_task].task_successors =
                                    Append(@, concrete_task)]
             ts2 == [ts1 EXCEPT ![concrete_task].task_dependencies =
                                    Append(@, predecessor_task)]
         IN  wire(ts2, p2t, Tail(pairs))

\* The while loop ends; the dependencies and successors are wired; the call returns.
ConcretizeWire ==
    /\ main_pc = "add_tasks" /\ cz.pc = "while" /\ cz.to_add = {}
    /\ tasks' = wire(tasks, path_to_task, wire_pairs(tasks, cz.generated_tasks))
    /\ cz' = [cz EXCEPT !.pc = "idle", !.returned = Append(@, cz.params)]
    /\ UNCHANGED <<pool, definitions, args, main_pc, calls, path_to_task>>
    /\ UNCHANGED exec_vars

(***************************************************************************)
(* Task.needs_running.  File.refresh re-reads the filesystem right before  *)
(* every use of exists and time, so a File is its path and the values read *)
(* are those of fs.  The result is "True", "False", or "TypeError" when     *)
(* d.time is None (the dependency does not exist) in d.time > g.time.      *)
(***************************************************************************)
RECURSIVE time_pairs(_, _)
time_pairs(generates, file_dependencies) ==
    IF generates = <<>> THEN <<>>
    ELSE [n \in DOMAIN file_dependencies |-> <<Head(generates), file_dependencies[n]>>]
         \o time_pairs(Tail(generates), file_dependencies)

RECURSIVE newer_dependency(_, _)
newer_dependency(pairs, f) ==
    IF pairs = <<>> THEN "False"
    ELSE LET g == Head(pairs)[1]
             d == Head(pairs)[2]
         IN  IF d \notin DOMAIN f THEN "TypeError"
             ELSE IF f[d] > f[g] THEN "True"
             ELSE newer_dependency(Tail(pairs), f)

needs_running(t, f) ==
    IF \E n \in DOMAIN t.generates : t.generates[n] \notin DOMAIN f THEN "True"
    ELSE IF t.redo_if_modified
    THEN newer_dependency(time_pairs(t.generates, t.file_dependencies), f)
    ELSE "False"

(***************************************************************************)
(* CommandGraph.run and the task threads.                                  *)
(***************************************************************************)
graph_vars == <<definitions, args, calls, cz, path_to_task, pool>>

\* add_tasks has returned; main calls cg.run, which creates the thread semaphore.
MainRun ==
    /\ main_pc = "add_tasks" /\ cz.pc = "idle" /\ calls = <<>>
    /\ main_pc' = "run"
    /\ thread_semaphore' = args.parallelism
    /\ started' = 0
    /\ pc' = [i \in DOMAIN tasks |-> "unstarted"]
    /\ dep_i' = [i \in DOMAIN tasks |-> 1]
    /\ res_i' = [i \in DOMAIN tasks |-> 0]
    /\ hist' = [i \in DOMAIN tasks |-> [needs_running |-> "none", command |-> "none"]]
    /\ UNCHANGED <<graph_vars, tasks, fs, clock, name_to_resource, result, exit_code>>

\* for t in self.tasks: th = Thread(target=t.run, ...); th.start()
ThreadStart ==
    /\ main_pc = "run" /\ started < Len(tasks)
    /\ started' = started + 1
    /\ pc' = [pc EXCEPT ![started + 1] = "needs_running"]
    /\ UNCHANGED <<graph_vars, tasks, fs, clock, name_to_resource, thread_semaphore,
                   dep_i, res_i, hist, result, exit_code, main_pc>>

\* A thread that takes its thread slot before any of its resources.
after_dependencies_thread_first(i) == "acquire_thread"

\* Where a thread goes once the loop over its task_dependencies is over.
after_dependencies(i) ==
    IF tasks[i].uses = <<>> THEN "acquire_thread" ELSE "acquire_resources"

\* if self.needs_running(): ... else: print(...); return True
NeedsRunning(i) ==
    /\ pc[i] = "needs_running"
    /\ LET r == needs_running(tasks[i], fs)
       IN  /\ hist' = [hist EXCEPT ![i].needs_running = r]
           /\ pc' = [pc EXCEPT ![i] = CASE r = "True" -> "for_dependency"
                                        [] r = "False" -> "returned"
                                        [] OTHER -> "raised"]
    /\ UNCHANGED <<graph_vars, tasks, fs, clock, name_to_resource, thread_semaphore,
                   started, dep_i, res_i, result, exit_code, main_pc>>

\* A thread that never waits for its dependencies.
must_wait_never(t) == FALSE

\* if not t.completed: the thread has to wait on t.done.
must_wait(t) == ~tasks[t].completed

\* for t in self.task_dependencies: if not t.completed:
ForDependency(i) ==
    /\ pc[i] = "for_dependency"
    /\ pc' = [pc EXCEPT ![i] =
                IF dep_i[i] > Len(tasks[i].task_dependencies) THEN after_dependencies(i)
                ELSE IF must_wait(tasks[i].task_dependencies[dep_i[i]]) THEN "with_done"
                ELSE "check_success"]
    /\ UNCHANGED <<graph_vars, tasks, fs, clock, name_to_resource, thread_semaphore,
                   started, dep_i, res_i, hist, result, exit_code, main_pc>>

\* with t.done: t.done.wait() -- the thread takes the condition's lock and, in
\* wait, gives it up and blocks until a notify_all on t.done.  The lock is held
\* only inside the with blocks, none of which blocks while holding it, so each
\* block is one step.
WithDoneWait(i) ==
    /\ pc[i] = "with_done"
    /\ pc' = [pc EXCEPT ![i] = "wait"]
    /\ UNCHANGED <<graph_vars, tasks, fs, clock, name_to_resource, thread_semaphore,
                   started, dep_i, res_i, hist, result, exit_code, main_pc>>

\* The threads blocked in t.done.wait().
waiters(t) ==
    {j \in DOMAIN pc : pc[j] = "wait" /\ tasks[j].task_dependencies[dep_i[j]] = t}

\* with self.done: self.done.notify_all() by thread i, which then goes to `to`.
notify_all(i, to) ==
    [j \in DOMAIN pc |-> IF j = i THEN to
                         ELSE IF j \in waiters(i) THEN "check_success"
                         ELSE pc[j]]

\* if not t.success: -- otherwise the loop goes to the next dependency.
CheckSuccess(i) ==
    /\ pc[i] = "check_success"
    /\ IF ~tasks[tasks[i].task_dependencies[dep_i[i]]].success
       THEN pc' = [pc EXCEPT ![i] = "skip"] /\ UNCHANGED dep_i
       ELSE pc' = [pc EXCEPT ![i] = "for_dependency"]
            /\ dep_i' = [dep_i EXCEPT ![i] = @ + 1]
    /\ UNCHANGED <<graph_vars, tasks, fs, clock, name_to_resource, thread_semaphore,
                   started, res_i, hist, result, exit_code, main_pc>>

\* self.success = False; self.completed = True
Skip(i) ==
    /\ pc[i] = "skip"
    /\ tasks' = [tasks EXCEPT ![i].success = FALSE, ![i].completed = TRUE]
    /\ pc' = [pc EXCEPT ![i] = "skip_notify"]
    /\ UNCHANGED <<graph_vars, fs, clock, name_to_resource, thread_semaphore,
                   started, dep_i, res_i, hist, result, exit_code, main_pc>>

\* with self.done: self.done.notify_all(); return
SkipNotify(i) ==
    /\ pc[i] = "skip_notify"
    /\ pc' = notify_all(i, "returned")
    /\ UNCHANGED <<graph_vars, tasks, fs, clock, name_to_resource, thread_semaphore,
                   started, dep_i, res_i, hist, result, exit_code, main_pc>>

\* An acquire that never blocks.
resource_free_always(r) == TRUE

\* r.acquire() returns only when the semaphore's value is positive.
resource_free(r) == name_to_resource[r] > 0

\* [r.acquire() for r in self.uses], one acquire per step
AcquireResource(i) ==
    /\ pc[i] = "acquire_resources"
    /\ LET r == tasks[i].uses[res_i[i] + 1]
       IN  /\ resource_free(r)
           /\ name_to_resource' = [name_to_resource EXCEPT ![r] = @ - 1]
    /\ res_i' = [res_i EXCEPT ![i] = @ + 1]
    /\ pc' = [pc EXCEPT ![i] = IF res_i[i] + 1 = Len(tasks[i].uses)
                               THEN "acquire_thread" ELSE "acquire_resources"]
    /\ UNCHANGED <<graph_vars, tasks, fs, clock, thread_semaphore,
                   started, dep_i, hist, result, exit_code, main_pc>>

\* An acquire of the thread semaphore that never blocks.
thread_free_always == TRUE

\* thread_semaphore.acquire() returns only when the value is positive.
thread_free == thread_semaphore > 0

\* thread_semaphore.acquire(); print("Running", ...); subprocess.run starts
AcquireThread(i) ==
    /\ pc[i] = "acquire_thread"
    /\ thread_free
    /\ thread_semaphore' = thread_semaphore - 1
    /\ pc' = [pc EXCEPT ![i] = "subprocess"]
    /\ hist' = [hist EXCEPT ![i].command = "running"]
    /\ UNCHANGED <<graph_vars, tasks, fs, clock, name_to_resource,
                   started, dep_i, res_i, result, exit_code, main_pc>>

\* The files a command that exits with status 0 has written: its task's
\* outputs, stamped with the current time.  A command that fails writes none.
command_writes(t, f, now) ==
    [p \in DOMAIN f \cup Range(t.generates) |->
        IF p \in Range(t.generates) THEN now ELSE f[p]]

\* subprocess.run(self.command, shell=True, check=True) returns (ok) and
\* self.success = True, or raises and self.success = False.
Subprocess(i) ==
    /\ pc[i] = "subprocess"
    /\ \E ok \in BOOLEAN :
        /\ tasks' = [tasks EXCEPT ![i].success = ok]
        /\ hist' = [hist EXCEPT ![i].command = IF ok THEN "done" ELSE "failed"]
        /\ fs' = IF ok THEN command_writes(tasks[i], fs, clock) ELSE fs
        /\ clock' = IF ok THEN clock + 1 ELSE clock
    /\ pc' = [pc EXCEPT ![i] = "release_thread"]
    /\ UNCHANGED <<graph_vars, name_to_resource, thread_semaphore,
                   started, dep_i, res_i, result, exit_code, main_pc>>

\* BoundedSemaphore.release raises ValueError when the value is the initial one.
release_raises(value, initial) == value >= initial

\* The resources released in the try body: a failed command keeps them.
after_release_thread_try(i) ==
    IF res_i[i] = 0 \/ ~tasks[i].success THEN "set_completed" ELSE "release_resources"

\* A finally block that releases the thread semaphore and nothing else.
after_release_thread_only(i) == "set_completed"

\* After thread_semaphore.release() the finally block releases the resources,
\* if the task has any, whether the command failed or not.
after_release_thread(i) ==
    IF res_i[i] = 0 THEN "set_completed" ELSE "release_resources"

\* finally: thread_semaphore.release()
ReleaseThread(i) ==
    /\ pc[i] = "release_thread"
    /\ IF release_raises(thread_semaphore, args.parallelism)
       THEN pc' = [pc EXCEPT ![i] = "raised"] /\ UNCHANGED thread_semaphore
       ELSE /\ thread_semaphore' = thread_semaphore + 1
            /\ pc' = [pc EXCEPT ![i] = after_release_thread(i)]
    /\ UNCHANGED <<graph_vars, tasks, fs, clock, name_to_resource,
                   started, dep_i, res_i, hist, result, exit_code, main_pc>>

\* [r.release() for r in reversed(self.uses)], one release per step
ReleaseResource(i) ==
    /\ pc[i] = "release_resources"
    /\ LET r == tasks[i].uses[res_i[i]]
       IN  IF release_raises(name_to_resource[r], definitions.resources[r])
           THEN pc' = [pc EXCEPT ![i] = "raised"]
                /\ UNCHANGED <<name_to_resource, res_i>>
           ELSE /\ name_to_resource' = [name_to_resource EXCEPT ![r] = @ + 1]
                /\ res_i' = [res_i EXCEPT ![i] = @ - 1]
                /\ pc' = [pc EXCEPT ![i] = IF res_i[i] = 1 THEN "set_completed"
                                           ELSE "release_resources"]
    /\ UNCHANGED <<graph_vars, tasks, fs, clock, thread_semaphore,
                   started, dep_i, hist, result, exit_code, main_pc>>

\* self.completed = True
SetCompleted(i) ==
    /\ pc[i] = "set_completed"
    /\ tasks' = [tasks EXCEPT ![i].completed = TRUE]
    /\ pc' = [pc EXCEPT ![i] = "notify"]
    /\ UNCHANGED <<graph_vars, fs, clock, name_to_resource, thread_semaphore,
                   started, dep_i, res_i, hist, result, exit_code, main_pc>>

\* with self.done: self.done.notify_all(); then return True
Notify(i) ==
    /\ pc[i] = "notify"
    /\ pc' = notify_all(i, "returned")
    /\ UNCHANGED <<graph_vars, tasks, fs, clock, name_to_resource, thread_semaphore,
                   started, dep_i, res_i, hist, result, exit_code, main_pc>>

\* A thread is over when Task.run has returned or an exception has ended it.
thread_over(i) == pc[i] \in {"returned", "raised"}

\* for th in my_threads: th.join(); return all(t.success for t in self.tasks)
Join ==
    /\ main_pc = "run" /\ started = Len(tasks)
    /\ \A i \in DOMAIN pc : thread_over(i)
    /\ result' = << \A i \in DOMAIN tasks : tasks[i].success >>
    /\ main_pc' = "all_done"
    /\ UNCHANGED <<graph_vars, tasks, fs, clock, name_to_resource, thread_semaphore,
                   started, pc, dep_i, res_i, hist, exit_code>>

\* print("All done."): main returns and the interpreter exits with status 0.
AllDone ==
    /\ main_pc = "all_done"
    /\ main_pc' = "exited"
    /\ exit_code' = <<0>>
    /\ UNCHANGED <<graph_vars, tasks, run_vars>>

Next ==
    \/ ConcretizeCall
    \/ ConcretizeLoop
    \/ ConcretizeRaise
    \/ ConcretizeWire
    \/ MainRun
    \/ ThreadStart
    \/ \E i \in DOMAIN pc : NeedsRunning(i)
    \/ \E i \in DOMAIN pc : ForDependency(i)
    \/ \E i \in DOMAIN pc : WithDoneWait(i)
    \/ \E i \in DOMAIN pc : CheckSuccess(i)
    \/ \E i \in DOMAIN pc : Skip(i)
    \/ \E i \in DOMAIN pc : SkipNotify(i)
    \/ \E i \in DOMAIN pc : AcquireResource(i)
    \/ \E i \in DOMAIN pc : AcquireThread(i)
    \/ \E i \in DOMAIN pc : Subprocess(i)
    \/ \E i \in DOMAIN pc : ReleaseThread(i)
    \/ \E i \in DOMAIN pc : ReleaseResource(i)
    \/ \E i \in DOMAIN pc : SetCompleted(i)
    \/ \E i \in DOMAIN pc : Notify(i)
    \/ Join
    \/ AllDone

Spec == Init /\ [][Next]_vars

(***************************************************************************)
(* Notions the properties use.                                             *)
(***************************************************************************)
\* The thread holds a slot of the thread semaphore.
holds_thread(i) == pc[i] \in {"subprocess", "release_thread"}

\* The thread holds resource r: it is among the first res_i[i] of its uses.
holds_resource(i, r) == \E n \in 1..res_i[i] : tasks[i].uses[n] = r

\* The thread has left the loop over its dependencies without returning.
admitted(i) ==
    pc[i] \in {"acquire_resources", "acquire_thread", "subprocess", "release_thread",
               "release_resources", "set_completed", "notify"}

predecessors(i) == Range(tasks[i].task_dependencies)

RECURSIVE closure(_, _)
closure(S, n) ==
    IF n = 0 THEN S ELSE closure(S \cup UNION {predecessors(j) : j \in S}, n - 1)

\* The direct and transitive predecessors of task i.
ancestors(i) == closure(predecessors(i), Len(tasks))

has_failed_ancestor(i) == \E p \in ancestors(i) : hist[p].command = "failed"

\* No step of the program is possible.  Every step moves main or a thread
\* forward, so every run ends in such a state, and a thread is blocked for
\* good exactly when it is blocked there.
Quiescent == ~ENABLED Next

(***************************************************************************)
(* C1: at most P = args.parallelism tasks are at any time between the      *)
(* acquire and the release of the thread semaphore.                        *)
(***************************************************************************)
C1_AtMostPRunning ==
    Cardinality({i \in DOMAIN pc : holds_thread(i)}) <= args.parallelism

\* P = 2 commands run while a third task waits for a thread slot.
C1_Witness ==
    /\ args.parallelism >= 2
    /\ Cardinality({i \in DOMAIN pc : pc[i] = "subprocess"}) = args.parallelism
    /\ \E j \in DOMAIN pc : pc[j] = "acquire_thread"

(***************************************************************************)
(* C2: at most capacity(r) tasks hold resource r at any time, whatever P.  *)
(***************************************************************************)
C2_ResourceCapacity ==
    \A r \in DOMAIN definitions.resources :
        Cardinality({i \in DOMAIN pc : holds_resource(i, r)}) <= definitions.resources[r]

\* P = 2 > capacity = 1: one task runs its command holding the resource while
\* another, independent of it, is blocked acquiring the resource.
C2_Witness ==
    /\ args.parallelism = 2
    /\ \E r \in DOMAIN definitions.resources :
        /\ definitions.resources[r] = 1
        /\ \E i, j \in DOMAIN pc :
            /\ pc[i] = "subprocess" /\ holds_resource(i, r)
            /\ pc[j] = "acquire_resources" /\ tasks[j].uses[res_i[j] + 1] = r
            /\ i \notin ancestors(j) /\ j \notin ancestors(i)

(***************************************************************************)
(* C3: a task that has left the loop over its dependencies (and so every   *)
(* task that executes its command) has all its task_dependencies completed.*)
(***************************************************************************)
C3_PredecessorsCompleted ==
    \A i \in DOMAIN pc :
        admitted(i) => \A p \in predecessors(i) : tasks[p].completed

\* A task with dependencies executes its command after having waited.
C3_Witness ==
    \E i \in DOMAIN pc :
        /\ pc[i] = "subprocess"
        /\ Len(tasks[i].task_dependencies) = 2
        /\ \A p \in predecessors(i) : hist[p].command = "done"

(***************************************************************************)
(* C4: a task with a failed direct or transitive predecessor never         *)
(* executes its command, never acquires a resource or the thread           *)
(* semaphore, and ends completed and not successful.                       *)
(***************************************************************************)
C4_SkippedUpstreamFailed ==
    \A i \in DOMAIN pc :
        has_failed_ancestor(i) =>
            /\ hist[i].command = "none"
            /\ res_i[i] = 0 /\ ~holds_thread(i)
            /\ thread_over(i) => tasks[i].completed /\ ~tasks[i].success

\* The part of C4 that the code keeps: no command, no semaphore.
C4_NeverRuns ==
    \A i \in DOMAIN pc :
        has_failed_ancestor(i) =>
            /\ hist[i].command = "none"
            /\ res_i[i] = 0 /\ ~holds_thread(i)

(***************************************************************************)
(* C5: a task for which needs_running() returned false never executes its  *)
(* command and ends completed with success = true.                         *)
(***************************************************************************)
C5_NotNeededSucceeds ==
    \A i \in DOMAIN pc :
        hist[i].needs_running = "False" =>
            /\ hist[i].command = "none"
            /\ thread_over(i) => tasks[i].completed /\ tasks[i].success

(***************************************************************************)
(* C6: CommandGraph.run returns true iff every task ran its command with   *)
(* success or did not need running, and false iff some task failed or was  *)
(* skipped because of an upstream failure.                                 *)
(***************************************************************************)
skipped_upstream_failed(i) ==
    hist[i].command = "none" /\ tasks[i].completed /\ ~tasks[i].success

C6_RunResult ==
    result # <<>> =>
        /\ result[1] <=> \A i \in DOMAIN pc : \/ hist[i].command = "done"
                                              \/ hist[i].needs_running = "False"
        /\ ~result[1] <=> \E i \in DOMAIN pc : \/ hist[i].command = "failed"
                                               \/ skipped_upstream_failed(i)

(***************************************************************************)
(* C7: for every edge p -> t, t evaluates needs_running() only after p's   *)
(* command has terminated or p has reached a terminal state without        *)
(* running.                                                                *)
(***************************************************************************)
terminated(p) ==
    \/ hist[p].command \in {"done", "failed"}
    \/ tasks[p].completed
    \/ pc[p] = "returned"

C7_NeedsRunningAfterPredecessors ==
    \A t \in DOMAIN pc :
        hist[t].needs_running # "none" => \A p \in predecessors(t) : terminated(p)

(***************************************************************************)
(* C8: when some command has failed, every task without a failed           *)
(* predecessor whose outputs were absent executes its command and ends in  *)
(* the state its own exit status gives, and run returns false: this holds  *)
(* in every state in which the program can no longer move.                 *)
(***************************************************************************)
initially_absent(path) == path \notin DOMAIN fs \/ fs[path] >= FirstClock

outputs_absent(i) == \A n \in DOMAIN tasks[i].generates :
                         initially_absent(tasks[i].generates[n])

C8_DrainAndContinue ==
    (Quiescent /\ \E a \in DOMAIN pc : hist[a].command = "failed") =>
        /\ \A i \in DOMAIN pc :
             (~has_failed_ancestor(i) /\ outputs_absent(i)) =>
                 /\ hist[i].command \in {"done", "failed"}
                 /\ tasks[i].completed
                 /\ tasks[i].success <=> hist[i].command = "done"
        /\ result = <<FALSE>>

\* C8 on the runs that start with no output file at all, as in the example
\* A fails -> B -> C, independent D.
C8_DrainAllAbsent ==
    (\A path \in DOMAIN fs : initially_absent(path)) => C8_DrainAndContinue

(***************************************************************************)
(* C9: no task is ever blocked for good on a resource semaphore or on the  *)
(* thread semaphore, whatever the resource lists of the tasks.             *)
(***************************************************************************)
blocked_on_semaphore(i) == pc[i] \in {"acquire_resources", "acquire_thread"}

consistent_order ==
    \E rank \in [DOMAIN definitions.resources ->
                    1..Cardinality(DOMAIN definitions.resources)] :
        \A i \in DOMAIN tasks : \A m, n \in DOMAIN tasks[i].uses :
            m < n => rank[tasks[i].uses[m]] < rank[tasks[i].uses[n]]

C10_OneTaskPerOutputPath ==
    main_pc \in {"run", "all_done", "exited"} =>
        \A i, j \in DOMAIN tasks :
            i # j => Range(tasks[i].generates) \cap Range(tasks[j].generates) = {}

\* The call of concretize that has just returned was given params that an
\* earlier call on this CommandGraph (same target) had already returned with.
repeated_call ==
    /\ main_pc = "add_tasks" /\ cz.pc = "idle" /\ cz.returned # <<>>
    /\ \E n \in 1..(Len(cz.returned) - 1) :
           cz.returned[n] = cz.returned[Len(cz.returned)]

(***************************************************************************)
(* C11: a call of concretize with a (target, params) already expanded on   *)
(* this CommandGraph leaves cg.tasks, with the edges its tasks hold, and   *)
(* path_to_task as it found them.                                          *)
(***************************************************************************)
C11_ExpansionIdempotent ==
    repeated_call =>
        /\ tasks = cz.before.tasks
        /\ path_to_task = cz.before.path_to_task

(***************************************************************************)
(* C12: during expansion no entry of path_to_task that a call of           *)
(* concretize found is given another task, and between the calls every     *)
(* output path of every task of cg.tasks is indexed to that very task.     *)
(***************************************************************************)
C12_IndexNeverOverwritten ==
    main_pc = "add_tasks" =>
        /\ \A p \in DOMAIN cz.before.path_to_task :
               path_to_task[p] = cz.before.path_to_task[p]
        /\ cz.pc = "idle" =>
               \A i \in DOMAIN tasks : \A o \in Range(tasks[i].generates) :
                   o \in DOMAIN path_to_task /\ path_to_task[o] = i

(***************************************************************************)
(* C13: between the calls of concretize every predecessor edge p -> t in   *)
(* task_dependencies is justified by the index, some input path of t being *)
(* indexed to p, and the successor lists mirror the predecessor lists.     *)
(***************************************************************************)
edges_mirrored ==
    \A t, p \in DOMAIN tasks :
        Cardinality({n \in DOMAIN tasks[t].task_dependencies :
                         tasks[t].task_dependencies[n] = p})
        = Cardinality({n \in DOMAIN tasks[p].task_successors :
                           tasks[p].task_successors[n] = t})

C13_EdgesJustifiedByIndex ==
    (main_pc = "add_tasks" /\ cz.pc = "idle") =>
        /\ \A t \in DOMAIN tasks : \A p \in Range(tasks[t].task_dependencies) :
               \E d \in Range(tasks[t].file_dependencies) :
                   d \in DOMAIN path_to_task /\ path_to_task[d] = p
        /\ edges_mirrored

\* The half of C13 that the code keeps: the two lists are appended together.
C13_EdgesMirrored == (cz.pc = "idle" /\ main_pc = "add_tasks") => edges_mirrored

\* The parameters given at least one value on the command line.
valued_params == {p \in Range(definitions.parameters) : args.values[p] # <<>>}

\* The bindings of the Cartesian product of the non-empty value lists.
bindings ==
    {b \in [valued_params -> UNION {Range(args.values[p]) : p \in valued_params}] :
        \A p \in valued_params : b[p] \in Range(args.values[p])}

\* How many elements of the product (tuples of list positions) give binding b.
RECURSIVE count_choices(_, _)
count_choices(param_names, b) ==
    IF param_names = <<>> THEN 1
    ELSE (IF Head(param_names) \in DOMAIN b
          THEN Cardinality({n \in DOMAIN args.values[Head(param_names)] :
                                args.values[Head(param_names)][n] = b[Head(param_names)]})
          ELSE 1)
         * count_choices(Tail(param_names), b)

\* The calls of g.concretize by add_tasks: those returned, the one running or
\* raising, and those to come.
expander_calls ==
    cz.returned \o (IF cz.pc = "idle" THEN <<>> ELSE <<cz.params>>) \o calls

\* The target's task has no input and its output template names every
\* parameter that has values, none of them repeated.
output_uses_all_params ==
    /\ args.target \in DOMAIN MakeGraph_rules(definitions)
    /\ MakeGraph_rules(definitions)[args.target].dependencies = <<>>
    /\ get_params(definitions.files[args.target]) = valued_params
    /\ \A p \in valued_params : \A m, n \in DOMAIN args.values[p] :
           args.values[p][m] = args.values[p][n] => m = n

(***************************************************************************)
(* C14: add_tasks calls concretize once per element of the Cartesian       *)
(* product of the non-empty value lists, each time with a binding of       *)
(* exactly the parameters that have values, each to one of its values; and *)
(* when the target's output names all of them, the graph that add_tasks    *)
(* leaves has one task and one output path per element (4 for a=[1,2],     *)
(* b=[x,y]).                                                               *)
(***************************************************************************)
C14_CartesianProduct ==
    /\ \A n \in DOMAIN expander_calls : expander_calls[n] \in bindings
    /\ \A b \in bindings :
           Cardinality({n \in DOMAIN expander_calls : expander_calls[n] = b})
           = count_choices(definitions.parameters, b)
    /\ (output_uses_all_params /\ main_pc = "run") =>
           /\ Len(tasks) = Cardinality(bindings)
           /\ Cardinality(UNION {Range(tasks[i].generates) : i \in DOMAIN tasks})
              = Cardinality(bindings)

\* a=[1,2], b=[x,y], output f_{a}_{b}: add_tasks has returned and left 4 tasks.
C14_Witness ==
    /\ main_pc = "run"
    /\ output_uses_all_params
    /\ args.values = [a |-> <<"1", "2">>, b |-> <<"x", "y">>]
    /\ Len(cz.returned) = 4
    /\ {tasks[i].generates[1] : i \in DOMAIN tasks}
       = {"r/f_1_x", "r/f_1_y", "r/f_2_x", "r/f_2_y"}

\* The logical names the expansion of the target pops: the target and the
\* inputs of the tasks generating the names already found.
RECURSIVE names_popped(_, _)
names_popped(S, n) ==
    IF n = 0 THEN S
    ELSE names_popped(
             S \cup UNION {{MakeGraph_rules(definitions)[name].dependencies[m].name :
                              m \in DOMAIN MakeGraph_rules(definitions)[name].dependencies} :
                           name \in S \cap DOMAIN MakeGraph_rules(definitions)},
             n - 1)

\* Some task the target needs reads a file that no TaskSpec generates.
has_external_input ==
    \E name \in names_popped({args.target}, Cardinality(DOMAIN definitions.files)) :
        name \notin DOMAIN MakeGraph_rules(definitions)

(***************************************************************************)
(* C15: when a task needed for the target has an input that no TaskSpec    *)
(* produces, the expansion does not fail: no exception ends the program    *)
(* during add_tasks, and the executor is reached with the task in cg.tasks *)
(* and no predecessor edge for that input.                                 *)
(***************************************************************************)
C15_ExternalInputExpands ==
    has_external_input =>
        /\ main_pc # "raised"
        /\ (main_pc = "add_tasks" /\ cz.pc = "idle" /\ calls = <<>>) =>
               \E i \in DOMAIN tasks :
                   \E d \in Range(tasks[i].file_dependencies) :
                       /\ d \notin DOMAIN path_to_task
                       /\ tasks[i].task_dependencies = <<>>

\* The {placeholders} written in the yaml for a task: those of its command
\* and of the paths of the files it generates and depends on.
placeholders(t_desc) ==
    {tok.v : tok \in {x \in Range(t_desc.command)
                            \cup UNION {Range(definitions.files[n]) :
                                          n \in Range(t_desc.generates)
                                                \cup Range(t_desc.dependencies)} :
                        x.k = "par"}}

\* The yaml description of the TaskSpec a Task was concretized from.
description_of(t) ==
    CHOOSE t_desc \in Range(definitions.tasks) : t_desc.name = t.name[1]

(***************************************************************************)
(* C16: MissingParameters is raised with the TaskSpec's name and exactly   *)
(* its placeholders that the binding lacks, at least one; every Task was   *)
(* concretized under a binding that covers its TaskSpec's placeholders,    *)
(* and its command and paths are those formatted with the binding cut down *)
(* to the placeholders, whatever else the binding holds.                   *)
(***************************************************************************)
C16_MissingParameters ==
    /\ cz.pc = "MissingParameters" =>
           \E t_desc \in Range(definitions.tasks) :
               /\ cz.exc = <<t_desc.name, placeholders(t_desc) \ DOMAIN cz.params>>
               /\ placeholders(t_desc) \ DOMAIN cz.params # {}
    /\ \A i \in DOMAIN tasks :
           LET t_desc == description_of(tasks[i])
               used == Restrict(tasks[i].name[2], placeholders(t_desc))
           IN  /\ placeholders(t_desc) \subseteq DOMAIN tasks[i].name[2]
               /\ tasks[i].command = format(t_desc.command, used)
               /\ \A n \in DOMAIN t_desc.generates :
                      tasks[i].generates[n]
                      = path_join(args.root_path,
                                  format(definitions.files[t_desc.generates[n]], used))
               /\ \A n \in DOMAIN t_desc.dependencies :
                      tasks[i].file_dependencies[n]
                      = path_join(args.root_path,
                                  format(definitions.files[t_desc.dependencies[n]], used))

\* a is bound, b has no value and the output path names both: the exception
\* carries b alone.
C16_Witness ==
    /\ cz.pc = "MissingParameters"
    /\ DOMAIN cz.params = {"a"}
    /\ cz.exc = <<"F", {"b"}>>
    /\ main_pc = "raised"

\* Some output of t does not exist, or redo_if_modified is set and some input
\* of t has a modification time strictly greater than that of some output.
stale(t, f) ==
    \/ \E g \in Range(t.generates) : g \notin DOMAIN f
    \/ /\ t.redo_if_modified
       /\ \E d \in Range(t.file_dependencies) : \E g \in Range(t.generates) :
              d \in DOMAIN f /\ g \in DOMAIN f /\ f[d] > f[g]

(***************************************************************************)
(* C17: whenever a thread is about to evaluate needs_running, the call     *)
(* returns True if some output is missing or, under redo_if_modified, some *)
(* input is strictly newer than some output, and returns False otherwise.  *)
(***************************************************************************)
C17_NeedsRunningIffStale ==
    \A i \in DOMAIN pc :
        pc[i] = "needs_running" =>
            needs_running(tasks[i], fs) = IF stale(tasks[i], fs) THEN "True" ELSE "False"

\* What the code keeps of C17: the same, for the calls made while every input
\* of the task exists.
C17_IffStaleWhenInputsExist ==
    \A i \in DOMAIN pc :
        (pc[i] = "needs_running" /\ Range(tasks[i].file_dependencies) \subseteq DOMAIN fs) =>
            needs_running(tasks[i], fs) = IF stale(tasks[i], fs) THEN "True" ELSE "False"

(***************************************************************************)
(* C18: when the program exits after CommandGraph.run has returned, its    *)
(* exit status is 0 if run returned True and is not 0 if run returned      *)
(* False.                                                                  *)
(***************************************************************************)
C18_ExitStatusFollowsResult ==
    (main_pc = "exited" /\ result # <<>>) =>
        (exit_code = <<0>> <=> result = <<TRUE>>)

(***************************************************************************)
(* C19: no thread stays for good in t.done.wait() on a predecessor t that  *)
(* has set completed and called notify_all: once the program can take no   *)
(* further step, no thread is in the wait on such a predecessor.           *)
(***************************************************************************)
C19_NoLostNotification ==
    Quiescent =>
        \A j \in DOMAIN pc :
            pc[j] = "wait" =>
                LET t == tasks[j].task_dependencies[dep_i[j]]
                IN  ~(tasks[t].completed /\ pc[t] = "returned")

\* Task t was found by its needs_running to be up to date (s = "False") or
\* in need of running (s = "True").
found(t, s) == t \in DOMAIN hist /\ hist[t].needs_running = s

(***************************************************************************)
(* C20: when the program can take no further step and no command has       *)
(* failed, every task B found in need of running with a predecessor A      *)
(* found up to date has had its command executed and has succeeded, A's    *)
(* command has not been executed, and CommandGraph.run has returned True.  *)
(***************************************************************************)
C20_RebuildAfterFreshPredecessor ==
    (Quiescent /\ \A i \in DOMAIN hist : hist[i].command # "failed") =>
        \A B \in DOMAIN hist : \A A \in predecessors(B) :
            (found(A, "False") /\ found(B, "True")) =>
                /\ hist[A].command = "none"
                /\ hist[B].command = "done"
                /\ tasks[B].success
                /\ result = <<TRUE>>

\* Thread i moves from one place of Task.run to another in this step.
moves(i, from, to) == pc[i] = from /\ pc'[i] = to

(***************************************************************************)
(* C21: every step that takes a Resource semaphore is the acquire of the   *)
(* next resource in the task's list by a thread that has not taken a       *)
(* thread slot; the thread semaphore is taken only with all the task's     *)
(* resources held; when the command ends, failed or not, the thread        *)
(* semaphore is released first, with all resources still held, and then    *)
(* the resources last-acquired first; no thread that holds a thread slot   *)
(* is at the acquire of a resource.                                        *)
(***************************************************************************)
C21_AcquireReleaseOrder ==
    [][/\ \A r \in DOMAIN name_to_resource :
           /\ name_to_resource'[r] < name_to_resource[r] =>
                  \E i \in DOMAIN pc :
                      /\ pc[i] = "acquire_resources"
                      /\ r = tasks[i].uses[res_i[i] + 1]
                      /\ res_i'[i] = res_i[i] + 1
                      /\ hist[i].command = "none"
           /\ name_to_resource'[r] > name_to_resource[r] =>
                  \E i \in DOMAIN pc :
                      /\ pc[i] = "release_resources"
                      /\ r = tasks[i].uses[res_i[i]]
                      /\ res_i'[i] = res_i[i] - 1
                      /\ hist[i].command \in {"done", "failed"}
       /\ (main_pc = "run" /\ thread_semaphore' < thread_semaphore) =>
              \E i \in DOMAIN pc :
                  /\ moves(i, "acquire_thread", "subprocess")
                  /\ res_i[i] = Len(tasks[i].uses)
       /\ (main_pc = "run" /\ thread_semaphore' > thread_semaphore) =>
              \E i \in DOMAIN pc :
                  /\ pc[i] = "release_thread"
                  /\ res_i[i] = Len(tasks[i].uses)
                  /\ pc'[i] = IF tasks[i].uses = <<>> THEN "set_completed"
                              ELSE "release_resources"
       /\ \A i \in DOMAIN pc :
           /\ pc[i] = "subprocess" /\ pc'[i] # "subprocess" => pc'[i] = "release_thread"
           /\ moves(i, "release_resources", "set_completed") => res_i'[i] = 0
           /\ holds_thread(i) => ~(pc[i] = "acquire_resources")
                                 /\ res_i[i] = Len(tasks[i].uses)
      ]_vars

\* A task with two resources whose command failed has released the thread
\* semaphore and its second resource and still holds the first, which
\* another task is waiting to acquire.
C21_Witness ==
    \E i, j \in DOMAIN pc :
        /\ Len(tasks[i].uses) = 2
        /\ pc[i] = "release_resources" /\ res_i[i] = 1
        /\ hist[i].command = "failed"
        /\ thread_semaphore = args.parallelism
        /\ pc[j] = "acquire_resources"
        /\ tasks[j].uses[res_i[j] + 1] = tasks[i].uses[1]

\* The command of task i has been started (it is running, done or failed).
executed(i) == i \in DOMAIN hist /\ hist[i].command # "none"

(***************************************************************************)
(* C22: in a run of the executor no two tasks of cg.tasks that have an     *)
(* output path in common both execute their command.                       *)
(***************************************************************************)
C22_OneExecutionPerOutputPath ==
    \A i, j \in DOMAIN tasks :
        (i # j /\ Range(tasks[i].generates) \cap Range(tasks[j].generates) # {}) =>
            ~(executed(i) /\ executed(j))

\* The command of task i has ended and the thread has left the finally
\* block's releases.
past_releases(i) ==
    /\ hist[i].command \in {"done", "failed"}
    /\ pc[i] \in {"set_completed", "notify", "returned"}

(***************************************************************************)
(* C23: once the executor has started, no semaphore's value exceeds its    *)
(* capacity and no release raises; a task past its releases, its command   *)
(* done or failed, holds no resource; a task skipped for a failed          *)
(* predecessor has taken none; and when CommandGraph.run has returned the  *)
(* thread semaphore is at P and every Resource semaphore at its capacity.  *)
(***************************************************************************)
C23_SemaphoresRestored ==
    main_pc \in {"run", "all_done", "exited"} =>
        /\ thread_semaphore <= args.parallelism
        /\ \A r \in DOMAIN name_to_resource :
               name_to_resource[r] <= definitions.resources[r]
        /\ \A i \in DOMAIN pc :
               /\ pc[i] = "raised" => hist[i].needs_running = "TypeError"
               /\ past_releases(i) => res_i[i] = 0
               /\ (pc[i] \in {"skip", "skip_notify"} \/ skipped_upstream_failed(i)) =>
                      res_i[i] = 0 /\ hist[i].command = "none"
        /\ result # <<>> =>
               /\ thread_semaphore = args.parallelism
               /\ name_to_resource = definitions.resources

\* run has returned: a task with two resources failed, another with
\* resources succeeded, a third was skipped.
C23_Witness ==
    /\ result # <<>>
    /\ \E i, j, k \in DOMAIN pc :
        /\ Len(tasks[i].uses) = 2 /\ hist[i].command = "failed"
        /\ tasks[j].uses # <<>> /\ hist[j].command = "done"
        /\ skipped_upstream_failed(k) /\ pc[k] = "returned"

\* Task i is on a cycle of the predecessor edges.
on_cycle(i) == i \in ancestors(i)

\* While a call of concretize runs, no name already popped is on the
\* worklist, every pop has made one task, and the loop can take a step: with
\* finitely many file names the call ends.
pops_each_name_once ==
    (main_pc = "add_tasks" /\ cz.pc = "while") =>
        /\ cz.to_add \cap cz.done = {}
        /\ Len(cz.generated_tasks) = Cardinality(cz.done)
        /\ Cardinality(cz.done) <= Cardinality(DOMAIN definitions.files)
        /\ ~Quiescent

oregan_vars == <<definitions, args, fs, clock, main_pc, calls, cz, tasks, path_to_task,
                 name_to_resource, thread_semaphore, started, pc, dep_i, res_i, hist,
                 result, exit_code>>

\* Task.__init__ and the edges MakeGraph.concretize appends.  exists: every
\* file the task generates is on disk.
PoolTask(task_dependencies, task_successors, exists) ==
    [task_dependencies |-> task_dependencies,
     futures_dependencies |-> <<>>,
     task_successors |-> task_successors,
     future |-> "None",
     exists |-> exists,
     run_pc |-> "none"]

\* Acyclic graphs: no task, one task, three independent tasks, a chain of
\* two, a diamond of four.  Each task is <<task_dependencies, task_successors>>.
PoolShapes ==
    { <<>>,
      << <<<<>>, <<>>>> >>,
      << <<<<>>, <<>>>>, <<<<>>, <<>>>>, <<<<>>, <<>>>> >>,
      << <<<<>>, <<2>>>>, <<<<1>>, <<>>>> >>,
      << <<<<>>, <<2, 3>>>>, <<<<1>>, <<4>>>>, <<<<1>>, <<4>>>>, <<<<2, 3>>, <<>>>> >> }

\* cg.run(parallelism=max_workers) is called on a wired graph.
PoolInit ==
    /\ \E shape \in PoolShapes : \E P \in 1..MaxP :
       \E exists \in [DOMAIN shape -> BOOLEAN] :
           pool = [pc |-> "with",
                   max_workers |-> P,
                   tasks |-> [t \in DOMAIN shape |->
                                 PoolTask(shape[t][1], shape[t][2], exists[t])],
                   to_add |-> {},
                   queue |-> <<>>,
                   submitted |-> <<>>,
                   exc |-> "none",
                   result |-> <<>>]
    /\ definitions = External(1).definitions
    /\ args = External(1).args
    /\ fs = NoFiles
    /\ clock = FirstClock
    /\ main_pc = "off"
    /\ calls = <<>>
    /\ cz = cz_idle
    /\ tasks = <<>>
    /\ path_to_task = <<>>
    /\ name_to_resource = External(1).definitions.resources
    /\ thread_semaphore = 0
    /\ started = 0
    /\ pc = <<>>
    /\ dep_i = <<>>
    /\ res_i = <<>>
    /\ hist = <<>>
    /\ result = <<>>
    /\ exit_code = <<>>

\* with ThreadPoolExecutor(max_workers=parallelism) as executor:
\*     to_add = {t for t in self.tasks if len(t.task_dependencies) == 0}
PoolWith ==
    /\ pool.pc = "with"
    /\ pool' = [pool EXCEPT
                  !.pc = "while",
                  !.to_add = {t \in DOMAIN pool.tasks :
                                 Len(pool.tasks[t].task_dependencies) = 0}]
    /\ UNCHANGED oregan_vars

\* futures_dependencies is a list: t.futures_dependencies.add(...) raises
\* AttributeError at the first predecessor of t.
futures_add_raises(t) == pool.tasks[t].task_dependencies # <<>>

\* The successors of t to schedule once t has its future: those without a
\* future whose predecessors all have one.
to_schedule(ts, t) ==
    {succ_t \in Range(ts[t].task_successors) :
        /\ ts[succ_t].future = "None"
        /\ \A tt \in Range(ts[succ_t].task_dependencies) : ts[tt].future # "None"}

\* One iteration of the while loop: t = to_add.pop(), the futures of its
\* predecessors, executor.submit(t.run), the scheduling of its successors.
\* The exception leaves the with block.
PoolIteration ==
    /\ pool.pc = "while" /\ pool.to_add # {}
    /\ \E t \in pool.to_add :
        IF futures_add_raises(t)
        THEN pool' = [pool EXCEPT !.pc = "exit_with",
                                  !.exc = "AttributeError",
                                  !.to_add = @ \ {t}]
        ELSE LET ts == [pool.tasks EXCEPT ![t].future = "pending"]
             IN  pool' = [pool EXCEPT
                            !.tasks = ts,
                            !.queue = Append(@, t),
                            !.submitted = Append(@, t),
                            !.to_add = (@ \ {t}) \cup to_schedule(ts, t)]
    /\ UNCHANGED oregan_vars

\* return all(t.result() for t in self.tasks): a Task has no method result,
\* so the first task raises AttributeError; with no task the value is True.
PoolReturn ==
    /\ pool.pc = "while" /\ pool.to_add = {}
    /\ pool' = IF pool.tasks = <<>>
               THEN [pool EXCEPT !.pc = "exit_with", !.result = <<TRUE>>]
               ELSE [pool EXCEPT !.pc = "exit_with", !.exc = "AttributeError"]
    /\ UNCHANGED oregan_vars

\* The future of t is done: it holds a result or an exception.
future_done(t) == pool.tasks[t].future \in {"True", "False", "exception"}

\* Leaving the with block calls executor.shutdown(wait=True), which returns
\* once every submitted task is done; then run returns or the exception goes on.
PoolExitWith ==
    /\ pool.pc = "exit_with"
    /\ \A t \in DOMAIN pool.tasks : pool.tasks[t].future = "None" \/ future_done(t)
    /\ pool' = [pool EXCEPT !.pc = IF pool.exc = "none" THEN "returned" ELSE "raised"]
    /\ UNCHANGED oregan_vars

\* A worker is free and takes the oldest submitted task: Task.run starts.
WorkerTake ==
    /\ pool.queue # <<>>
    /\ Cardinality({t \in DOMAIN pool.tasks : pool.tasks[t].future = "running"})
       < pool.max_workers
    /\ pool' = [pool EXCEPT !.queue = Tail(@),
                            !.tasks[Head(pool.queue)].future = "running",
                            !.tasks[Head(pool.queue)].run_pc = "needs_running"]
    /\ UNCHANGED oregan_vars

\* if self.needs_running(): True when a generated file is missing; otherwise
\* needs_running reads self.redo_if_modified, which Task.__init__ never sets:
\* AttributeError, kept by the future.
WorkerNeedsRunning(t) ==
    /\ pool.tasks[t].run_pc = "needs_running"
    /\ pool' = IF ~pool.tasks[t].exists
               THEN [pool EXCEPT !.tasks[t].run_pc = "for_futures"]
               ELSE [pool EXCEPT !.tasks[t].run_pc = "over",
                                 !.tasks[t].future = "exception"]
    /\ UNCHANGED oregan_vars

\* for f in self.futures_dependencies: if not f.result(): return False
\* f.result() blocks until f is done and raises what the task raised.
WorkerForFutures(t) ==
    /\ pool.tasks[t].run_pc = "for_futures"
    /\ LET fd == Range(pool.tasks[t].futures_dependencies)
       IN  /\ \A f \in fd : future_done(f)
           /\ pool' =
                IF \A f \in fd : pool.tasks[f].future = "True"
                THEN [pool EXCEPT !.tasks[t].run_pc = "subprocess"]
                ELSE [pool EXCEPT !.tasks[t].run_pc = "over",
                                  !.tasks[t].future =
                                      IF \E f \in fd : pool.tasks[f].future = "exception"
                                      THEN "exception" ELSE "False"]
    /\ UNCHANGED oregan_vars

\* subprocess.run(self.command.split()): without check=True the command's
\* status is not looked at, and the command may or may not have written the
\* files; when the command cannot be started the except branch calls
\* traceback.print_exc(e) and returns False, or print_exc raises.
WorkerSubprocess(t) ==
    /\ pool.tasks[t].run_pc = "subprocess"
    /\ \E outcome \in {"True", "False", "exception"} : \E written \in BOOLEAN :
        pool' = [pool EXCEPT !.tasks[t].run_pc = "over",
                             !.tasks[t].future = outcome,
                             !.tasks[t].exists = (outcome = "True" /\ written)]
    /\ UNCHANGED oregan_vars

PoolNext ==
    \/ PoolWith
    \/ PoolIteration
    \/ PoolReturn
    \/ PoolExitWith
    \/ WorkerTake
    \/ \E t \in DOMAIN pool.tasks : WorkerNeedsRunning(t)
    \/ \E t \in DOMAIN pool.tasks : WorkerForFutures(t)
    \/ \E t \in DOMAIN pool.tasks : WorkerSubprocess(t)

PoolSpec == PoolInit /\ [][PoolNext]_vars

\* No step of smartmake's run or of its workers is possible.
PoolQuiescent == ~ENABLED PoolNext

(***************************************************************************)
(* C25: in smartmake.py's CommandGraph.run a task is submitted only after  *)
(* each of its predecessors and never twice; the submission loop is left  *)
(* only with an empty worklist, and once nothing can move every task of    *)
(* the graph has been submitted and no worker is waiting on a future.      *)
(***************************************************************************)
C25_TopologicalSubmission ==
    /\ \A n \in DOMAIN pool.submitted :
           /\ \A p \in Range(pool.tasks[pool.submitted[n]].task_dependencies) :
                  \E m \in 1..(n - 1) : pool.submitted[m] = p
           /\ \A m \in DOMAIN pool.submitted : pool.submitted[m] = pool.submitted[n] => m = n
    /\ pool.pc \in {"exit_with", "returned", "raised"} => pool.to_add = {}
    /\ PoolQuiescent =>
           /\ Range(pool.submitted) = DOMAIN pool.tasks
           /\ \A t \in DOMAIN pool.tasks : pool.tasks[t].run_pc # "for_futures"

====
